---- MODULE Spec2Model ----
(***************************************************************************)
(* State-machine model of the disaster-relief query layer: the module-level *)
(* collections sfcc2023Disasters, sfcc2023Claims, sfcc2023Agents, the       *)
(* derived disasterCounts index, and the query methods of SimpleDataTool.   *)
(*                                                                          *)
(* JavaScript values are tagged records [t |-> ...]; strings are sequences  *)
(* of UTF-16 code units; a Number that carries money is a binary64 value    *)
(* written as an exact pair (see "binary64 arithmetic" below).              *)
(***************************************************************************)
EXTENDS Integers, Sequences, FiniteSets, TLC

VARIABLES sfcc2023Disasters, sfcc2023Claims, sfcc2023Agents, disasterCounts,
          call, ret, tracing, history

vars == <<sfcc2023Disasters, sfcc2023Claims, sfcc2023Agents, disasterCounts,
          call, ret, tracing, history>>

data == <<sfcc2023Disasters, sfcc2023Claims, sfcc2023Agents, disasterCounts>>

-----------------------------------------------------------------------------
(* Bounds of the model. *)

\* longest Disaster collection drawn by InitDisasters
MaxDisasters == 3
\* longest Agent collection drawn by InitAgents
MaxAgents == 3
\* longest Claim collection drawn by InitSeverity, InitCosts, InitDensity, and
\* longest run of Claims InitMonths draws after its fixed ones
MaxClaims == 2

-----------------------------------------------------------------------------
(* JavaScript values. *)

Null == [t |-> "null"]
Undefined == [t |-> "undefined"]
NaN == [t |-> "NaN"]
NoCall == [t |-> "call", op |-> "none", args |-> <<>>]
Whole(n) == [t |-> "int", v |-> n]
Str(s) == [t |-> "string", s |-> s]

\* Number: the binary64 value m/1000 + e/(125 * 2^ErrScale)
Num(m, e) == [t |-> "number", m |-> m, e |-> e]

-----------------------------------------------------------------------------
(* Strings: sequences of UTF-16 code units. *)

EmptyString == <<>>
English == <<69, 110, 103, 108, 105, 115, 104>>
French == <<70, 114, 101, 110, 99, 104>>
Spanish == <<83, 112, 97, 110, 105, 115, 104>>
Closed == <<67, 108, 111, 115, 101, 100>>
Received == <<82, 101, 99, 101, 105, 118, 101, 100>>
Idaho == <<73, 100, 97, 104, 111>>
Iowa == <<73, 111, 119, 97>>
Ohio == <<79, 104, 105, 111>>

Min(a, b) == IF a <= b THEN a ELSE b

\* index of the first position where a and b differ (a common prefix's length + 1)
RECURSIVE FirstDiff(_, _, _)
FirstDiff(a, b, i) ==
    IF i > Len(a) \/ i > Len(b) \/ a[i] # b[i] THEN i ELSE FirstDiff(a, b, i + 1)

\* a < b on strings: comparison by code units, a proper prefix being smaller
StrLess(a, b) ==
    LET i == FirstDiff(a, b, 1)
    IN  IF i > Len(a) THEN i <= Len(b)
        ELSE IF i > Len(b) THEN FALSE
        ELSE a[i] < b[i]

\* a.localeCompare(b): negative, zero or positive
localeCompare(a, b) ==
    IF a = b THEN 0 ELSE IF StrLess(a, b) THEN -1 ELSE 1

\* decimal digits of a non-negative integer, as `${n}` writes them
RECURSIVE Digits(_)
Digits(n) == IF n < 10 THEN <<48 + n>> ELSE Digits(n \div 10) \o <<48 + (n % 10)>>

-----------------------------------------------------------------------------
(* binary64 arithmetic.                                                     *)
(* A finite non-negative Number is written Num(m, e): its exact value is    *)
(* m/1000 + e/(125 * 2^ErrScale), m the decimal value in thousandths and e  *)
(* the (tiny) distance of the binary64 value from that decimal.             *)

\* 2^-ErrScale is the unit in the last place of the smallest binade modelled
ErrScale == 60
\* binary64 keeps a 53-bit significand: ulp(x) = 2^(Exponent(x) - 52)
MantissaBits == 52
MinExponent == MantissaBits - ErrScale
MaxExponent == 9

\* 2^n, by squaring
RECURSIVE Pow2(_)
Pow2(n) ==
    IF n = 0 THEN 1
    ELSE LET h == Pow2(n \div 2)
         IN  h * h * (IF n % 2 = 1 THEN 2 ELSE 1)

\* 2^n modulo 250, by squaring
RECURSIVE Pow2Mod250(_)
Pow2Mod250(n) ==
    IF n = 0 THEN 1
    ELSE LET h == Pow2Mod250(n \div 2)
         IN  (h * h * (IF n % 2 = 1 THEN 2 ELSE 1)) % 250

\* m/1000 + (e tiny) >= 2^x
AtLeastPow2(m, e, x) ==
    LET lhs == IF x >= 0 THEN m ELSE m * Pow2(-x)
        rhs == IF x >= 0 THEN 1000 * Pow2(x) ELSE 1000
    IN  lhs > rhs \/ (lhs = rhs /\ e >= 0)

\* floor(log2(value)) of a positive value
Exponent(m, e) ==
    CHOOSE x \in MinExponent..MaxExponent :
        /\ AtLeastPow2(m, e, x)
        /\ x = MaxExponent \/ ~AtLeastPow2(m, e, x + 1)

\* the binary64 nearest (ties to even) to the exact value m/1000 + e units
RoundToDouble(m, e) ==
    IF m = 0 /\ e = 0 THEN Num(0, 0)
    ELSE LET x == Exponent(m, e)
             j == ErrScale + x - MantissaBits
             \* m * 2^(49 - x) = 125 * q + t: the value is (q + t/125) ulps
             t250 == ((m % 250) * Pow2Mod250(MantissaBits - 3 - x)) % 250
             t == t250 % 125
             qOdd == t250 \div 125 = 1
             ulp == 125 * Pow2(j)
             \* the value is q ulps + rem, rem = c0 ulps + rem0, 0 <= rem0 < ulp
             rem == Pow2(j) * t + e
             c0 == rem \div ulp
             rem0 == rem - c0 * ulp
             odd == qOdd # (c0 % 2 = 1)
             c == IF 2 * rem0 > ulp \/ (2 * rem0 = ulp /\ odd) THEN c0 + 1 ELSE c0
         IN  Num(m, Pow2(j) * (125 * c - t))

\* a decimal literal with at most three fractional digits, read as a Number
\* (JSON.parse of the data files, parseFloat of a toFixed result)
parseFloat(mills) == RoundToDouble(mills, 0)

\* a + b on Numbers: the exact sum, rounded once
Add(a, b) == RoundToDouble(a.m + b.m, a.e + b.e)

\* the sign of a - b on Numbers
Sign(a, b) ==
    IF a.m # b.m THEN (IF a.m > b.m THEN 1 ELSE -1)
    ELSE IF a.e # b.e THEN (IF a.e > b.e THEN 1 ELSE -1)
    ELSE 0

\* x.toFixed(2), in hundredths: the integer n with n/100 - x closest to zero,
\* the larger n when two are equally close
toFixed2(x) ==
    LET q == x.m \div 10
        d == x.m % 10
    IN  IF d > 5 \/ (d = 5 /\ x.e >= 0) THEN q + 1 ELSE q

\* parseFloat(x.toFixed(2))
RoundHundredths(x) == parseFloat(10 * toFixed2(x))

\* (x / n).toFixed(2), in hundredths, n a positive integer: the quotient is
\* rounded to binary64 before toFixed reads it, which matters only when x/n is
\* within rounding error of a decimal tie b = k + 0.005
QuotientToFixed2(x, n) ==
    LET k == x.m \div (10 * n)
        rest == x.m - k * 10 * n
        b == 10 * k + 5
        bx == Exponent(b, 0)
        j == ErrScale + bx - MantissaBits
        t250 == ((b % 250) * Pow2Mod250(MantissaBits - 3 - bx)) % 250
        t == t250 % 125
        qOdd == t250 \div 125 = 1
        \* the quotient rounds to the binary64 above b, not the one below
        above == IF t = 0 THEN 4 * x.e >= -(n * 125 * Pow2(j))
                 ELSE \/ 2 * x.e > n * Pow2(j) * (125 - 2 * t)
                      \/ (2 * x.e = n * Pow2(j) * (125 - 2 * t) /\ qOdd)
    IN  IF rest > 5 * n \/ (rest = 5 * n /\ above) THEN k + 1 ELSE k

-----------------------------------------------------------------------------
(* Objects used as maps: own keys in insertion order, and their values.     *)

EmptyObject == [keys |-> <<>>, val |-> <<>>]

Range(seq) == {seq[i] : i \in DOMAIN seq}

Has(obj, k) == k \in Range(obj.keys)

\* obj[k]
Get(obj, k) == IF Has(obj, k) THEN obj.val[k] ELSE Undefined

\* obj[k] = v
Put(obj, k, v) ==
    [keys |-> IF Has(obj, k) THEN obj.keys ELSE Append(obj.keys, k),
     val |-> [x \in Range(obj.keys) \cup {k} |-> IF x = k THEN v ELSE obj.val[x]]]

\* !v
Falsy(v) ==
    \/ v.t \in {"undefined", "null", "NaN"}
    \/ v.t = "int" /\ v.v = 0
    \/ v.t = "number" /\ v.m = 0 /\ v.e = 0
    \/ v.t = "string" /\ v.s = EmptyString

Infinity == [t |-> "Infinity"]

\* a < b on whole Numbers and Infinity
Lt(a, b) ==
    IF a.t = "Infinity" THEN FALSE
    ELSE IF b.t = "Infinity" THEN TRUE
    ELSE a.v < b.v

-----------------------------------------------------------------------------
(* Records of the three collections.                                        *)

YMD(y, m, d) == [year |-> y, month |-> m, day |-> d]

Disaster(id, state, declared, end, radius) ==
    [id |-> id, state |-> state, declared_date |-> declared, end_date |-> end,
     radius_miles |-> radius]

Claim(id, disaster, agent, handler, status, cost, severity) ==
    [id |-> id, disaster_id |-> disaster, agent_assigned_id |-> agent,
     claim_handler_assigned_id |-> handler, status |-> status,
     estimate_cost |-> parseFloat(cost), severity_rating |-> severity]

Agent(id, state, language) ==
    [id |-> id, state |-> state, secondary_language |-> language]

\* an id no record of the collections carries
DanglingId == Len(<<1, 2, 3, 4>>) + 5

DefaultDisasters ==
    << Disaster(1, Idaho, YMD(2023, 4, 10), YMD(2023, 4, 20), 1),
       Disaster(2, Iowa, YMD(2023, 8, 5), YMD(2023, 8, 1), 2),
       Disaster(3, Ohio, YMD(2023, 1, 15), YMD(2023, 2, 1), 10),
       Disaster(4, Idaho, YMD(2024, 4, 2), YMD(2024, 4, 2), 3) >>

DefaultAgents ==
    << Agent(1, Idaho, Spanish), Agent(2, Ohio, English) >>

DefaultClaims ==
    << Claim(1, 1, 1, 1, Closed, 10005, 5),
       Claim(2, 1, 1, 2, Received, 5000, 10),
       Claim(3, DanglingId, DanglingId, 1, Received, 1005, 1) >>

\* the sequences of length at most n over the set S
RECURSIVE SeqsUpTo(_, _)
SeqsUpTo(S, n) ==
    IF n = 0 THEN {<<>>}
    ELSE LET shorter == SeqsUpTo(S, n - 1)
         IN  shorter \cup {Append(s, x) : s \in {q \in shorter : Len(q) = n - 1}, x \in S}

-----------------------------------------------------------------------------
(* getDisasterCounts: the index built once when the module loads.           *)

RECURSIVE getDisasterCountsLoop(_, _)
getDisasterCountsLoop(disasters, n) ==
    IF n = 0 THEN EmptyObject
    ELSE LET counts == getDisasterCountsLoop(disasters, n - 1)
             state == disasters[n].state
             started == IF Falsy(Get(counts, state))
                        THEN Put(counts, state, Whole(0))
                        ELSE counts
         IN  Put(started, state, Whole(Get(started, state).v + 1))

\* mutant: the count is set to 0 on every record, not only the state's first
getDisasterCountsReset(disasters) ==
    LET counts == getDisasterCountsLoop(disasters, Len(disasters))
    IN  [keys |-> counts.keys, val |-> [k \in DOMAIN counts.val |-> Whole(1)]]

getDisasterCounts(disasters) == getDisasterCountsLoop(disasters, Len(disasters))

-----------------------------------------------------------------------------
(* Initial states: the collections as loaded, the index built from the      *)
(* Disaster collection, and no query called yet.                            *)

StateNames == {Idaho, Iowa, Ohio}
Languages == {EmptyString, English, French, Spanish}
Statuses == {Closed, Received}
Severities == {1, 10}
Costs == {1005, 5000, 10005}

Loaded(ds, cs, as, tr) ==
    /\ sfcc2023Disasters = ds
    /\ sfcc2023Claims = cs
    /\ sfcc2023Agents = as
    /\ disasterCounts = getDisasterCounts(ds)
    /\ call = NoCall
    /\ ret = Undefined
    /\ tracing = tr
    /\ history = NoCall

\* records get their position in the collection as id
Numbered(seq) == [i \in DOMAIN seq |-> [seq[i] EXCEPT !.id = i]]

\* a few whole datasets; an earlier call and its result may be remembered
Init ==
    \E ds \in {DefaultDisasters, <<>>}, cs \in {DefaultClaims, <<>>} :
        Loaded(ds, cs, DefaultAgents, TRUE)

\* every Disaster collection, in every order
InitDisasters ==
    \E ds \in SeqsUpTo({Disaster(0, s, YMD(2023, 4, 10), YMD(2023, 4, 20), 1) :
                            s \in StateNames}, MaxDisasters) :
        Loaded(Numbered(ds), DefaultClaims, DefaultAgents, FALSE)

\* every Agent collection, in every order
InitAgents ==
    \E as \in SeqsUpTo({Agent(0, Idaho, l) : l \in Languages}
                           \cup {Agent(0, Ohio, French)},
                       MaxAgents) :
        Loaded(DefaultDisasters, DefaultClaims, Numbered(as), FALSE)

\* Claim collections that vary in agent, status and severity
InitSeverity ==
    \E cs \in SeqsUpTo({Claim(0, 1, a, 1, st, 5000, sv) :
                            a \in {1, 2}, st \in Statuses, sv \in Severities},
                       MaxClaims) :
        Loaded(DefaultDisasters, Numbered(cs), DefaultAgents, FALSE)

\* Claim collections that vary in disaster, agent and cost
InitCosts ==
    \E cs \in SeqsUpTo({Claim(0, o[1], o[2], 1, Received, c, 5) :
                            o \in {<<1, 1>>, <<2, 1>>, <<2, DanglingId>>}, c \in Costs},
                       MaxClaims) :
        Loaded(DefaultDisasters, Numbered(cs), DefaultAgents, FALSE)

\* Claim collections that vary in the disaster they reference
InitDensity ==
    \E cs \in SeqsUpTo({Claim(0, d, 1, 1, Received, 5000, 5) :
                            d \in {1, 2, 3, DanglingId}},
                       MaxClaims + 1) :
        Loaded(DefaultDisasters, Numbered(cs), DefaultAgents, FALSE)

\* Claim collections that spread costs over the months of four disasters:
\* none or two fixed Claims, then every run of further ones
InitMonths ==
    \E first \in {<<>>, <<Claim(0, 1, 1, 1, Received, 1000, 5),
                          Claim(0, 2, 1, 1, Received, 1000, 5)>>},
       cs \in SeqsUpTo({Claim(0, 1, 1, 1, Received, 1000, 5),
                        Claim(0, 2, 1, 1, Received, 2000, 5),
                        Claim(0, 3, 1, 1, Received, 1000, 5),
                        Claim(0, 3, 1, 1, Received, 2000, 5),
                        Claim(0, 4, 1, 1, Received, 1000, 5),
                        Claim(0, DanglingId, 1, 1, Received, 2000, 5)},
                       MaxClaims) :
        Loaded(DefaultDisasters, Numbered(first \o cs), DefaultAgents, FALSE)

-----------------------------------------------------------------------------
(* Array helpers.                                                           *)

\* array.reduce((acc, claim) => acc + claim.estimate_cost, 0)
RECURSIVE SumCostLoop(_, _)
SumCostLoop(claims, n) ==
    IF n = 0 THEN Num(0, 0)
    ELSE Add(SumCostLoop(claims, n - 1), claims[n].estimate_cost)

SumCost(claims) == SumCostLoop(claims, Len(claims))

\* disasters.find((d) => d.id === id): the first match, or undefined
FindById(disasters, id) ==
    LET hits == {i \in DOMAIN disasters : disasters[i].id = id}
    IN  IF hits = {} THEN Undefined
        ELSE disasters[CHOOSE i \in hits : \A k \in hits : i <= k]

-----------------------------------------------------------------------------
(* The queries of SimpleDataTool, as functions of the collections.          *)

numClosedClaims(claims) ==
    Whole(Len(SelectSeq(claims, LAMBDA claim : claim.status = Closed)))

numClaimsForClaimHandlerId(claims, claimHandlerId) ==
    Whole(Len(SelectSeq(claims,
                        LAMBDA claim : claim.claim_handler_assigned_id = claimHandlerId)))

numDisastersForState(disasters, state) ==
    Whole(Len(SelectSeq(disasters, LAMBDA disaster : disaster.state = state)))

totalClaimCostForDisaster(claims, disasterId) ==
    LET related_claims == SelectSeq(claims, LAMBDA claim : claim.disaster_id = disasterId)
    IN  IF Len(related_claims) = 0 THEN Null
        ELSE RoundHundredths(SumCost(related_claims))

averageClaimCostForClaimHandler(claims, claimHandlerId) ==
    LET handler_claims ==
            SelectSeq(claims, LAMBDA claim : claim.claim_handler_assigned_id = claimHandlerId)
    IN  IF Len(handler_claims) = 0 THEN Null
        ELSE parseFloat(10 * QuotientToFixed2(SumCost(handler_claims), Len(handler_claims)))

\* mutant: no alphabetical tie-break, the first state to reach the count wins
RECURSIVE MostDisastersFirstWins(_, _, _, _)
MostDisastersFirstWins(counts, i, max_disaster_counter, state_with_most_disasters) ==
    IF i > Len(counts.keys) THEN state_with_most_disasters
    ELSE LET state == counts.keys[i]
         IN  IF Lt(max_disaster_counter, counts.val[state])
             THEN MostDisastersFirstWins(counts, i + 1, counts.val[state], state)
             ELSE MostDisastersFirstWins(counts, i + 1, max_disaster_counter,
                                         state_with_most_disasters)

\* one pass of the for-in loop over the index, from key i on
RECURSIVE MostDisastersLoop(_, _, _, _)
MostDisastersLoop(counts, i, max_disaster_counter, state_with_most_disasters) ==
    IF i > Len(counts.keys) THEN state_with_most_disasters
    ELSE LET state == counts.keys[i]
         IN  IF Lt(max_disaster_counter, counts.val[state])
             THEN MostDisastersLoop(counts, i + 1, counts.val[state], state)
             ELSE IF counts.val[state] = max_disaster_counter
                     /\ StrLess(state, state_with_most_disasters)
             THEN MostDisastersLoop(counts, i + 1, max_disaster_counter, state)
             ELSE MostDisastersLoop(counts, i + 1, max_disaster_counter,
                                    state_with_most_disasters)

stateWithMostDisasters(counts) ==
    Str(MostDisastersLoop(counts, 1, Whole(0), EmptyString))

\* mutant: the tie-break compares the wrong way round
RECURSIVE LeastDisastersLastName(_, _, _, _)
LeastDisastersLastName(counts, i, min_disaster_counter, state_with_least_disasters) ==
    IF i > Len(counts.keys) THEN state_with_least_disasters
    ELSE LET state == counts.keys[i]
         IN  IF Lt(counts.val[state], min_disaster_counter)
             THEN LeastDisastersLastName(counts, i + 1, counts.val[state], state)
             ELSE IF counts.val[state] = min_disaster_counter
                     /\ StrLess(state_with_least_disasters, state)
             THEN LeastDisastersLastName(counts, i + 1, min_disaster_counter, state)
             ELSE LeastDisastersLastName(counts, i + 1, min_disaster_counter,
                                         state_with_least_disasters)

RECURSIVE LeastDisastersLoop(_, _, _, _)
LeastDisastersLoop(counts, i, min_disaster_counter, state_with_least_disasters) ==
    IF i > Len(counts.keys) THEN state_with_least_disasters
    ELSE LET state == counts.keys[i]
         IN  IF Lt(counts.val[state], min_disaster_counter)
             THEN LeastDisastersLoop(counts, i + 1, counts.val[state], state)
             ELSE IF counts.val[state] = min_disaster_counter
                     /\ StrLess(state, state_with_least_disasters)
             THEN LeastDisastersLoop(counts, i + 1, min_disaster_counter, state)
             ELSE LeastDisastersLoop(counts, i + 1, min_disaster_counter,
                                     state_with_least_disasters)

stateWithLeastDisasters(counts) ==
    Str(LeastDisastersLoop(counts, 1, Infinity, EmptyString))

\* mutant: the tie-break is missing
LanguageStepNoTieBreak(acc, agent) ==
    LET spoken_language == agent.secondary_language
    IN  IF spoken_language # EmptyString /\ spoken_language # English
        THEN LET n == (IF Has(acc.freq, spoken_language)
                       THEN acc.freq.val[spoken_language].v ELSE 0) + 1
                 freq == Put(acc.freq, spoken_language, Whole(n))
             IN  IF n > acc.max
                 THEN [freq |-> freq, max |-> n, most |-> spoken_language]
                 ELSE [freq |-> freq, max |-> acc.max, most |-> acc.most]
        ELSE acc

\* the body of agents.forEach, on the state [freq, max, most] of the loop
LanguageStep(acc, agent) ==
    LET spoken_language == agent.secondary_language
    IN  IF spoken_language # EmptyString /\ spoken_language # English
        THEN LET started == IF Falsy(Get(acc.freq, spoken_language))
                            THEN Put(acc.freq, spoken_language, Whole(0))
                            ELSE acc.freq
                 n == Get(started, spoken_language).v + 1
                 freq == Put(started, spoken_language, Whole(n))
             IN  IF n > acc.max
                 THEN [freq |-> freq, max |-> n, most |-> spoken_language]
                 ELSE IF n = acc.max /\ StrLess(spoken_language, acc.most)
                 THEN [freq |-> freq, max |-> acc.max, most |-> spoken_language]
                 ELSE [freq |-> freq, max |-> acc.max, most |-> acc.most]
        ELSE acc

RECURSIVE LanguageLoop(_, _)
LanguageLoop(agents, n) ==
    IF n = 0 THEN [freq |-> EmptyObject, max |-> 0, most |-> EmptyString]
    ELSE LanguageStep(LanguageLoop(agents, n - 1), agents[n])

mostSpokenAgentLanguageByState(allAgents, state) ==
    LET agents == SelectSeq(allAgents, LAMBDA agent : agent.state = state)
    IN  IF Len(agents) = 0 THEN Str(EmptyString)
        ELSE Str(LanguageLoop(agents, Len(agents)).most)

\* mutant: "no claims" is decided on the open claims
numOfOpenClaimsNullWhenNoneOpen(allClaims, agentId, minSeverityRating) ==
    IF minSeverityRating > 10 \/ minSeverityRating <= 0 THEN Whole(-1)
    ELSE LET open_claims == SelectSeq(allClaims, LAMBDA claim :
                                claim.agent_assigned_id = agentId /\ claim.status # Closed)
         IN  IF Len(open_claims) = 0 THEN Null
             ELSE Whole(Len(SelectSeq(open_claims,
                                LAMBDA claim : claim.severity_rating >= minSeverityRating)))

numOfOpenClaimsForAgentAndSeverity(allClaims, agentId, minSeverityRating) ==
    IF minSeverityRating > 10 \/ minSeverityRating <= 0 THEN Whole(-1)
    ELSE LET claims == SelectSeq(allClaims, LAMBDA claim : claim.agent_assigned_id = agentId)
             open_claims == SelectSeq(claims, LAMBDA claim : claim.status # Closed)
         IN  IF Len(claims) = 0 THEN Null
             ELSE Whole(Len(SelectSeq(open_claims,
                                LAMBDA claim : claim.severity_rating >= minSeverityRating)))

\* new Date(d) as a point in time: later dates are greater
DateOf(d) == (d.year * 12 + (d.month - 1)) * 31 + (d.day - 1)

numDisastersDeclaredAfterEndDate(disasters) ==
    Whole(Len(SelectSeq(disasters,
                  LAMBDA disaster : DateOf(disaster.declared_date) > DateOf(disaster.end_date))))

\* mutant: the keys are the agent ids the Claims carry
RECURSIVE ClaimKeyedCostLoop(_, _, _)
ClaimKeyedCostLoop(agents, claims, n) ==
    IF n = 0 THEN EmptyObject
    ELSE LET id == claims[n].agent_assigned_id
             mine == SelectSeq(claims, LAMBDA claim : claim.agent_assigned_id = id)
         IN  Put(ClaimKeyedCostLoop(agents, claims, n - 1), id,
                 RoundHundredths(SumCost(mine)))

RECURSIVE AgentCostLoop(_, _, _)
AgentCostLoop(agents, claims, n) ==
    IF n = 0 THEN EmptyObject
    ELSE LET agent == agents[n]
             mine == SelectSeq(claims, LAMBDA claim : claim.agent_assigned_id = agent.id)
         IN  Put(AgentCostLoop(agents, claims, n - 1), agent.id,
                 RoundHundredths(SumCost(mine)))

mapOfAgentsKeyedByClaims(agents, claims) ==
    [t |-> "object", o |-> ClaimKeyedCostLoop(agents, claims, Len(claims))]

mapOfAgentsToTotalClaimCost(agents, claims) ==
    [t |-> "object", o |-> AgentCostLoop(agents, claims, Len(agents))]

\* Math.PI, as the fraction PiNum / PiDen
PiNum == 355
PiDen == 113

\* x ** 2
Square(x) == IF x.t = "int" THEN Whole(x.v * x.v) ELSE NaN

\* parseFloat((count / (Math.PI * area)).toFixed(5)): a Number with five
\* decimals, written in units of 0.00001; not-a-number when the area is
DensityToFixed5(count, area) ==
    IF area.t = "NaN" THEN NaN
    ELSE LET num == count * 100000 * PiDen
             den == PiNum * area.v
         IN  [t |-> "fixed5", n |-> (2 * num + den) \div (2 * den)]

\* mutant: null when the disaster does not exist
disasterClaimDensityNullIfUnknown(disasters, claims, disasterId) ==
    LET claims_from_disaster ==
            SelectSeq(claims, LAMBDA claim : claim.disaster_id = disasterId)
        found == FindById(disasters, disasterId)
    IN  IF Len(claims_from_disaster) = 0 \/ found = Undefined THEN Null
        ELSE DensityToFixed5(Len(claims_from_disaster), Whole(found.radius_miles * found.radius_miles))

disasterClaimDensity(disasters, claims, disasterId) ==
    LET claims_from_disaster ==
            SelectSeq(claims, LAMBDA claim : claim.disaster_id = disasterId)
        found == FindById(disasters, disasterId)
        \* ?.radius_miles
        radius_of_disaster == IF found = Undefined THEN Undefined
                              ELSE Whole(found.radius_miles)
    IN  IF Len(claims_from_disaster) = 0 THEN Null
        ELSE DensityToFixed5(Len(claims_from_disaster), Square(radius_of_disaster))

MonthNames ==
    << <<74, 97, 110, 117, 97, 114, 121>>,
       <<70, 101, 98, 114, 117, 97, 114, 121>>,
       <<77, 97, 114, 99, 104>>,
       <<65, 112, 114, 105, 108>>,
       <<77, 97, 121>>,
       <<74, 117, 110, 101>>,
       <<74, 117, 108, 121>>,
       <<65, 117, 103, 117, 115, 116>>,
       <<83, 101, 112, 116, 101, 109, 98, 101, 114>>,
       <<79, 99, 116, 111, 98, 101, 114>>,
       <<78, 111, 118, 101, 109, 98, 101, 114>>,
       <<68, 101, 99, 101, 109, 98, 101, 114>> >>

\* new Date(d).getMonth(): January is 0
getMonth(d) == d.month - 1

\* new Date(d).getFullYear()
getFullYear(d) == d.year

\* new Date(2000, monthIndex).toLocaleString("default", {month: "long"})
MonthLong(monthIndex) == MonthNames[monthIndex + 1]

\* `${month_name} ${year}` for the month a disaster was declared in
MonthYear(disaster) ==
    LET month == getMonth(disaster.declared_date) + 1
        month_name == MonthLong(month - 1)
        year == getFullYear(disaster.declared_date)
    IN  month_name \o <<32>> \o Digits(year)

\* the body of sfcc2023Claims.forEach, on month_claim_costs
MonthStep(disasters, month_claim_costs, claim) ==
    LET disaster == FindById(disasters, claim.disaster_id)
    IN  IF disaster = Undefined THEN month_claim_costs
        ELSE LET month_year == MonthYear(disaster)
                 started == IF Falsy(Get(month_claim_costs, month_year))
                            THEN Put(month_claim_costs, month_year, Num(0, 0))
                            ELSE month_claim_costs
             IN  Put(started, month_year,
                     Add(Get(started, month_year), claim.estimate_cost))

RECURSIVE MonthClaimCosts(_, _, _)
MonthClaimCosts(disasters, claims, n) ==
    IF n = 0 THEN EmptyObject
    ELSE MonthStep(disasters, MonthClaimCosts(disasters, claims, n - 1), claims[n])

\* mutant: equal costs are left in the order the sort finds them
CompareMonthsByCostOnly(costs, a, b) == Sign(costs.val[b], costs.val[a])

\* the comparator of the sort: costs[b] - costs[a] || a.localeCompare(b)
CompareMonths(costs, a, b) ==
    LET byCost == Sign(costs.val[b], costs.val[a])
    IN  IF byCost # 0 THEN byCost ELSE localeCompare(a, b)

\* x put into the sorted array after every element that does not follow it
RECURSIVE InsertSorted(_, _, _)
InsertSorted(costs, sorted, x) ==
    IF sorted = <<>> THEN <<x>>
    ELSE IF CompareMonths(costs, Head(sorted), x) <= 0
    THEN <<Head(sorted)>> \o InsertSorted(costs, Tail(sorted), x)
    ELSE <<x>> \o sorted

\* keys.sort(comparator)
RECURSIVE SortMonths(_, _, _)
SortMonths(costs, keys, n) ==
    IF n = 0 THEN <<>>
    ELSE InsertSorted(costs, SortMonths(costs, keys, n - 1), keys[n])

\* array.slice(0, n)
Slice(seq, n) == SubSeq(seq, 1, Min(n, Len(seq)))

topThreeMonthsWithHighestNumOfClaimsDesc(disasters, claims) ==
    LET month_claim_costs == MonthClaimCosts(disasters, claims, Len(claims))
        sorted_months ==
            Slice(SortMonths(month_claim_costs, month_claim_costs.keys,
                             Len(month_claim_costs.keys)), 3)
    IN  [t |-> "array", a |-> sorted_months]

-----------------------------------------------------------------------------
(* Calls: one action per query method. A call reads the collections and the *)
(* index and returns; call and ret hold the last call and what it returned. *)

HandlerIds == {1}
DisasterIds == {1, 2, DanglingId}
AgentIds == {1, 2}
SeverityRatings == {0, 1, 10, 11}

Call(op, args) == [t |-> "call", op |-> op, args |-> args]

SameCall(c, d) == c.op = d.op /\ c.args = d.args

\* a remembered call, its result, and whether calls were made since (0, 1, more)
Seen(c, r, n) == [t |-> "seen", call |-> c, ret |-> r, later |-> n]

Later(h) == IF h.t = "seen" THEN Seen(h.call, h.ret, Min(h.later + 1, 2)) ELSE h

\* the call returns r; a traced run may remember this call instead of the one
\* it remembers
Return(c, r) ==
    /\ call' = c
    /\ ret' = r
    /\ history' \in {Later(history)}
                     \cup (IF tracing THEN {Seen(c, r, 0)} ELSE {})
    /\ UNCHANGED tracing

getNumClosedClaims ==
    /\ Return(Call("getNumClosedClaims", <<>>), numClosedClaims(sfcc2023Claims))
    /\ UNCHANGED data

getNumClaimsForClaimHandlerId ==
    \E claimHandlerId \in HandlerIds :
        /\ Return(Call("getNumClaimsForClaimHandlerId", <<claimHandlerId>>),
                  numClaimsForClaimHandlerId(sfcc2023Claims, claimHandlerId))
        /\ UNCHANGED data

\* mutant: the scan's result is cached in the index
getNumDisastersForStateCaching ==
    \E state \in StateNames :
        /\ Return(Call("getNumDisastersForState", <<state>>),
                  numDisastersForState(sfcc2023Disasters, state))
        /\ disasterCounts' = Put(disasterCounts, state,
                                 numDisastersForState(sfcc2023Disasters, state))
        /\ UNCHANGED <<sfcc2023Disasters, sfcc2023Claims, sfcc2023Agents>>

getNumDisastersForState ==
    \E state \in StateNames :
        /\ Return(Call("getNumDisastersForState", <<state>>),
                  numDisastersForState(sfcc2023Disasters, state))
        /\ UNCHANGED data

getTotalClaimCostForDisaster ==
    \E disasterId \in DisasterIds :
        /\ Return(Call("getTotalClaimCostForDisaster", <<disasterId>>),
                  totalClaimCostForDisaster(sfcc2023Claims, disasterId))
        /\ UNCHANGED data

getAverageClaimCostForClaimHandler ==
    \E claimHandlerId \in HandlerIds :
        /\ Return(Call("getAverageClaimCostForClaimHandler", <<claimHandlerId>>),
                  averageClaimCostForClaimHandler(sfcc2023Claims, claimHandlerId))
        /\ UNCHANGED data

getStateWithMostDisasters ==
    /\ Return(Call("getStateWithMostDisasters", <<>>),
              stateWithMostDisasters(disasterCounts))
    /\ UNCHANGED data

getStateWithLeastDisasters ==
    /\ Return(Call("getStateWithLeastDisasters", <<>>),
              stateWithLeastDisasters(disasterCounts))
    /\ UNCHANGED data

getMostSpokenAgentLanguageByState ==
    \E state \in StateNames :
        /\ Return(Call("getMostSpokenAgentLanguageByState", <<state>>),
                  mostSpokenAgentLanguageByState(sfcc2023Agents, state))
        /\ UNCHANGED data

getNumOfOpenClaimsForAgentAndSeverity ==
    \E agentId \in AgentIds, minSeverityRating \in SeverityRatings :
        /\ Return(Call("getNumOfOpenClaimsForAgentAndSeverity",
                       <<agentId, minSeverityRating>>),
                  numOfOpenClaimsForAgentAndSeverity(sfcc2023Claims, agentId,
                                                     minSeverityRating))
        /\ UNCHANGED data

getNumDisastersDeclaredAfterEndDate ==
    /\ Return(Call("getNumDisastersDeclaredAfterEndDate", <<>>),
              numDisastersDeclaredAfterEndDate(sfcc2023Disasters))
    /\ UNCHANGED data

buildMapOfAgentsToTotalClaimCost ==
    /\ Return(Call("buildMapOfAgentsToTotalClaimCost", <<>>),
              mapOfAgentsToTotalClaimCost(sfcc2023Agents, sfcc2023Claims))
    /\ UNCHANGED data

calculateDisasterClaimDensity ==
    \E disasterId \in DisasterIds :
        /\ Return(Call("calculateDisasterClaimDensity", <<disasterId>>),
                  disasterClaimDensity(sfcc2023Disasters, sfcc2023Claims, disasterId))
        /\ UNCHANGED data

getTopThreeMonthsWithHighestNumOfClaimsDesc ==
    /\ Return(Call("getTopThreeMonthsWithHighestNumOfClaimsDesc", <<>>),
              topThreeMonthsWithHighestNumOfClaimsDesc(sfcc2023Disasters, sfcc2023Claims))
    /\ UNCHANGED data

Next ==
    \/ getNumClosedClaims
    \/ getNumClaimsForClaimHandlerId
    \/ getNumDisastersForState
    \/ getTotalClaimCostForDisaster
    \/ getAverageClaimCostForClaimHandler
    \/ getStateWithMostDisasters
    \/ getStateWithLeastDisasters
    \/ getMostSpokenAgentLanguageByState
    \/ getNumOfOpenClaimsForAgentAndSeverity
    \/ getNumDisastersDeclaredAfterEndDate
    \/ buildMapOfAgentsToTotalClaimCost
    \/ calculateDisasterClaimDensity
    \/ getTopThreeMonthsWithHighestNumOfClaimsDesc

Spec == Init /\ [][Next]_vars
SpecDisasters == InitDisasters /\ [][Next]_vars
SpecAgents == InitAgents /\ [][Next]_vars
SpecSeverity == InitSeverity /\ [][Next]_vars
SpecCosts == InitCosts /\ [][Next]_vars
SpecDensity == InitDensity /\ [][Next]_vars
SpecMonths == InitMonths /\ [][Next]_vars

-----------------------------------------------------------------------------
(* Reference definitions the properties are stated with: plain counts and   *)
(* decimal sums over the collections, independent of the queries' loops.    *)

Called(op) == call.op = op

ClaimsWhere(Test(_)) == {i \in DOMAIN sfcc2023Claims : Test(sfcc2023Claims[i])}

\* the number of Disaster records of a state
DisasterCount(state) ==
    Cardinality({i \in DOMAIN sfcc2023Disasters : sfcc2023Disasters[i].state = state})

StatesPresent == {sfcc2023Disasters[i].state : i \in DOMAIN sfcc2023Disasters}

\* the exact decimal sum, in thousandths, of the costs of a set of Claims
RECURSIVE MillsOf(_)
MillsOf(S) ==
    IF S = {} THEN 0
    ELSE LET i == CHOOSE x \in S : TRUE
         IN  sfcc2023Claims[i].estimate_cost.m + MillsOf(S \ {i})

Abs(n) == IF n < 0 THEN -n ELSE n

\* the Disasters at least one Claim references
ReferencedDisasters ==
    {d \in Range(sfcc2023Disasters) :
        \E i \in DOMAIN sfcc2023Claims : sfcc2023Claims[i].disaster_id = d.id}

\* the Claims of the Disasters declared in the month and year named b
ClaimsOfBucket(b) ==
    {i \in DOMAIN sfcc2023Claims :
        \E d \in ReferencedDisasters :
            d.id = sfcc2023Claims[i].disaster_id /\ MonthYear(d) = b}

\* s is the smallest name of the set S
SmallestName(s, S) == s \in S /\ \A o \in S : o = s \/ StrLess(s, o)

-----------------------------------------------------------------------------
C2_MostDisastersContract ==
    (Called("getStateWithMostDisasters") /\ sfcc2023Disasters # <<>>) =>
        LET keys == Range(disasterCounts.keys)
            most == {s \in keys : \A o \in keys :
                        disasterCounts.val[o].v <= disasterCounts.val[s].v}
        IN  /\ ret.s \in StatesPresent
            /\ SmallestName(ret.s, most)

\* two states tie for the most disasters, the later key of the index wins
C2_Witness ==
    /\ Called("getStateWithMostDisasters")
    /\ disasterCounts.keys = <<Ohio, Iowa, Idaho>>
    /\ DisasterCount(Iowa) = 1 /\ DisasterCount(Idaho) = 1 /\ DisasterCount(Ohio) = 1
    /\ ret = Str(Idaho)

(* C3: with a non-empty Disaster collection in any order,                   *)
(* getStateWithLeastDisasters returns a state of the collection whose count *)
(* is the minimum over the states of the index and whose name is the        *)
(* smallest of the states with that count.                                  *)
C3_LeastDisastersContract ==
    (Called("getStateWithLeastDisasters") /\ sfcc2023Disasters # <<>>) =>
        LET keys == Range(disasterCounts.keys)
            least == {s \in keys : \A o \in keys :
                         disasterCounts.val[s].v <= disasterCounts.val[o].v}
        IN  /\ ret.s \in StatesPresent
            /\ DisasterCount(ret.s) > 0
            /\ SmallestName(ret.s, least)

\* two states tie for the least disasters, the later key of the index wins
C3_Witness ==
    /\ Called("getStateWithLeastDisasters")
    /\ disasterCounts.keys = <<Ohio, Iowa>>
    /\ DisasterCount(Ohio) = 1 /\ DisasterCount(Iowa) = 1
    /\ ret = Str(Iowa)

(* C4: getMostSpokenAgentLanguageByState returns the language with the      *)
(* highest final tally among the state's agents, counting only languages    *)
(* that are non-empty and not English, the smallest name among those tied;  *)
(* the empty string when the state has no agent with such a language.       *)
C4_LanguageContract ==
    Called("getMostSpokenAgentLanguageByState") =>
        LET state == call.args[1]
            speakers(l) == {i \in DOMAIN sfcc2023Agents :
                                /\ sfcc2023Agents[i].state = state
                                /\ sfcc2023Agents[i].secondary_language = l}
            spoken == {l \in Languages \ {EmptyString, English} : speakers(l) # {}}
            top == {l \in spoken : \A o \in spoken :
                        Cardinality(speakers(o)) <= Cardinality(speakers(l))}
        IN  IF spoken = {} THEN ret = Str(EmptyString)
            ELSE SmallestName(ret.s, top)

\* Spanish is counted first and leads, French draws level last and wins
C4_Witness ==
    /\ Called("getMostSpokenAgentLanguageByState")
    /\ call.args[1] = Idaho
    /\ Len(sfcc2023Agents) = 3
    /\ sfcc2023Agents[1] = Agent(1, Idaho, Spanish)
    /\ sfcc2023Agents[2] = Agent(2, Ohio, French)
    /\ sfcc2023Agents[3] = Agent(3, Idaho, French)
    /\ ret = Str(French)

(* C5: getTopThreeMonthsWithHighestNumOfClaimsDesc returns min(3, number of *)
(* buckets) distinct bucket names, a bucket being the month and year a      *)
(* Disaster referenced by at least one Claim was declared in; a Claim whose *)
(* disaster_id matches no Disaster adds to no sum; the list is in           *)
(* descending order of summed cost, equal sums in ascending order of name,  *)
(* and no omitted bucket comes before a returned one in that order.         *)
C5_TopThreeContract ==
    Called("getTopThreeMonthsWithHighestNumOfClaimsDesc") =>
        LET buckets == {MonthYear(d) : d \in ReferencedDisasters}
            sum(b) == MillsOf(ClaimsOfBucket(b))
            before(a, b) == sum(a) > sum(b) \/ (sum(a) = sum(b) /\ StrLess(a, b))
            months == ret.a
        IN  /\ Len(months) = Min(3, Cardinality(buckets))
            /\ Range(months) \subseteq buckets
            /\ \A i, j \in DOMAIN months : i < j => before(months[i], months[j])
            /\ \A b \in buckets \ Range(months) :
                    \A i \in DOMAIN months : before(months[i], b)

\* four buckets: the costliest first, then equal sums by name, against the
\* order the buckets were met in, and the last of the equal ones left out
C5_Witness ==
    /\ Called("getTopThreeMonthsWithHighestNumOfClaimsDesc")
    /\ Len(sfcc2023Claims) = 4
    /\ sfcc2023Claims[3].disaster_id = 3 /\ sfcc2023Claims[3].estimate_cost.m = 2000
    /\ sfcc2023Claims[4].disaster_id = 4
    /\ ret.a = << MonthYear(DefaultDisasters[3]), MonthYear(DefaultDisasters[1]),
                  MonthYear(DefaultDisasters[4]) >>

(* C6: the keys of the map buildMapOfAgentsToTotalClaimCost returns are     *)
(* exactly the ids of the loaded Agents; each value is the sum of the costs *)
(* of the Claims assigned to that id, rounded to hundredths, and 0 for an   *)
(* agent without claims.                                                    *)
C6_AgentCostMapContract ==
    Called("buildMapOfAgentsToTotalClaimCost") =>
        /\ Range(ret.o.keys) = {sfcc2023Agents[i].id : i \in DOMAIN sfcc2023Agents}
        /\ Len(ret.o.keys) = Len(sfcc2023Agents)
        /\ \A id \in Range(ret.o.keys) :
              LET mine == ClaimsWhere(LAMBDA c : c.agent_assigned_id = id)
                  total == ret.o.val[id]
              IN  /\ total.t = "number"
                  /\ total.m % 10 = 0
                  /\ Abs(total.m - MillsOf(mine)) <= 5
                  /\ mine = {} => total = Num(0, 0)

\* an agent with two claims, an agent with none, a claim of an unknown agent
C6_Witness ==
    /\ Called("buildMapOfAgentsToTotalClaimCost")
    /\ Len(sfcc2023Claims) = 2
    /\ sfcc2023Claims[1].agent_assigned_id = 1 /\ sfcc2023Claims[1].estimate_cost.m = 10005
    /\ sfcc2023Claims[2].agent_assigned_id = DanglingId
    /\ ret.o.keys = <<1, 2>>
    /\ ret.o.val[1].m = 10010
    /\ ret.o.val[2] = Num(0, 0)

(* C7: getNumDisastersForState(S) equals the index entry of S when S is a   *)
(* key of the index built by getDisasterCounts and 0 when it is not; the    *)
(* keys of the index are exactly the states of the Disaster records and     *)
(* each value is the number of records of that state.                       *)
C7_IndexContract ==
    /\ Range(disasterCounts.keys) = StatesPresent
    /\ \A s \in StatesPresent : disasterCounts.val[s] = Whole(DisasterCount(s))
    /\ Called("getNumDisastersForState") =>
          ret = IF Has(disasterCounts, call.args[1])
                THEN disasterCounts.val[call.args[1]]
                ELSE Whole(0)

\* a state with two records among three is asked for
C7_Witness ==
    /\ Called("getNumDisastersForState")
    /\ call.args[1] = Iowa
    /\ Len(sfcc2023Disasters) = 3
    /\ disasterCounts.keys = <<Iowa, Ohio>>
    /\ ret = Whole(2)

(* C8: no query changes the Disaster, Claim or Agent collection or the      *)
(* index, and a query called again with the same arguments, after any calls *)
(* in between, returns what its earlier call returned.                      *)
C8_FrameAndIdempotence ==
    [][/\ data' = data
       /\ (history.t = "seen" /\ SameCall(call', history.call)) => ret' = history.ret
      ]_vars

\* a query is called, other calls follow, and it is called again
C8_Witness ==
    /\ history.t = "seen"
    /\ history.later = 2
    /\ history.call.op = "getStateWithLeastDisasters"
    /\ SameCall(call, history.call)
    /\ ret = history.ret
    /\ sfcc2023Disasters # <<>>

(* C9: getTotalClaimCostForDisaster returns null exactly when no Claim has  *)
(* the disaster id; otherwise the sum of the matching costs rounded half-up *)
(* to the nearest hundredth.                                                *)
C9_TotalCostHalfUp ==
    Called("getTotalClaimCostForDisaster") =>
        LET related == ClaimsWhere(LAMBDA c : c.disaster_id = call.args[1])
        IN  IF related = {} THEN ret = Null
            ELSE /\ ret.t = "number"
                 /\ ret.m = 10 * ((MillsOf(related) + 5) \div 10)

====
